---- MODULE Spec2Model ----
(***************************************************************************)
(* Residual Attention Network: the training driver (train.py), the         *)
(* residual block (model/basic_layers.py) and the early-stopping helper    *)
(* (model/utils.py, which train.py imports).                               *)
(*                                                                         *)
(* Three specifications share the module:                                  *)
(*   Spec    one run of train.py, from sys.argv to the end of the process  *)
(*   SpecES  an EarlyStopping object fed a sequence of validation losses   *)
(*   SpecRB  a ResidualBlock constructed and applied to an input tensor    *)
(* Tensors are modelled by their shapes, losses by exact quotients.        *)
(***************************************************************************)
EXTENDS Integers, Sequences, FiniteSets

VARIABLES
    pc,                 \* position of the run of train.py
    argv,               \* sys.argv, argv[1] is the script name
    dataset_size,       \* number of images the dataset provider returns
    target_dataset,     \* the name target_dataset, "" while unbound
    data_loaded,        \* TRUE once train_X, valid_X, ... are bound
    train_n,            \* train_X.shape[0]
    valid_n,            \* valid_X.shape[0] = len(valid_y)
    test_n,             \* test_X.shape[0]
    model_constructed,  \* ResidualAttentionModel() has been called
    graph_built,        \* placeholders x, t and the nodes y, loss, train, valid exist
    loss_name,          \* what the Python name loss is bound to
    sess_open,          \* inside "with tf.Session() as sess", FALSE again on leaving it
    init_created,       \* the op init = tf.global_variables_initializer() exists
    vars_initialized,   \* the initializer op has been run in the session
    epochs_started,     \* values range(NUM_EPOCHS) has handed to the epoch loop
    epoch,              \* loop variable of the epoch loop: epochs_started - 1 once bound
    n_batches,          \* train_X.shape[0] // BATCH_SIZE
    i,                  \* loop variable of the batch loops
    train_costs,        \* list of fetched training losses
    valid_costs,        \* list of fetched validation losses
    valid_predictions,  \* len(valid_predictions)
    steps_attempted,    \* number of sess.run calls made so far
    checkpoints,        \* epoch tags of the checkpoints written to SAVE_PATH
    error,              \* the exception that ended the run, "" if none
    early_stopping,     \* the EarlyStopping object
    es_obs,             \* losses passed to EarlyStopping.check so far
    es_ret,             \* value returned by the last call of check
    rb_pc,              \* "new", "built" or "done"
    rb_args,            \* arguments given to ResidualBlock.__init__
    rb,                 \* the fields of the ResidualBlock
    rb_x,               \* shape of the tensor given to f_prop
    rb_out              \* what f_prop produced

dvars == <<pc, argv, dataset_size, target_dataset, data_loaded, train_n, valid_n,
           test_n, model_constructed, graph_built, loss_name, sess_open,
           init_created, vars_initialized, epochs_started, epoch, n_batches, i,
           train_costs,
           valid_costs, valid_predictions, steps_attempted, checkpoints, error>>
esvars == <<early_stopping, es_obs, es_ret>>
rbvars == <<rb_pc, rb_args, rb, rb_x, rb_out>>
vars == <<dvars, esvars, rbvars>>

----------------------------------------------------------------------------
(* Program constants *)

NUM_EPOCHS == 100
BATCH_SIZE == 64
TEST_SIZE == 5000
CIFAR10_SIZE == 60000

(* Bounds of the model *)

MaxArgs == 2        \* at most this many command-line arguments
MaxPatience == 3    \* patience values tried for EarlyStopping
MaxObs == 5         \* losses fed to one EarlyStopping object
MaxChannels == 3    \* channel counts of residual blocks and inputs
MaxStride == 2      \* strides of residual blocks
MaxBatch == 2       \* N of an input tensor
MaxSide == 4        \* H and W of an input tensor

ArgValues == {"CIFER-10", "MNIST", "ImageNet", "CIFAR-10"}
LossValues == {90, 95, 97, 100}

RECURSIVE SeqsUpTo(_, _)
SeqsUpTo(S, n) ==
    IF n = 0 THEN {<<>>}
    ELSE LET shorter == SeqsUpTo(S, n - 1)
         IN  shorter \cup {Append(s, v) : s \in {t \in shorter : Len(t) = n - 1}, v \in S}

\* sys.argv of the run: the script name followed by the arguments
Argvs == {<<"train.py">> \o a : a \in SeqsUpTo(ArgValues, MaxArgs)}

\* sizes of np.r_[cifar_X_1, cifar_X_2]: cifar10.load_data() returns the
\* 50000 + 10000 images of CIFAR-10
DatasetSizes == {CIFAR10_SIZE}

----------------------------------------------------------------------------
(* EarlyStopping (model/utils.py) *)

\* a loss as an exact quotient of hundredths; den = 0 is nan
Loss(num, den) == [num |-> num, den |-> den]

\* a < b on losses; every comparison with nan is false
Less(a, b) == a.den > 0 /\ b.den > 0 /\ a.num * b.den < b.num * a.den

\* EarlyStopping(): no best loss yet, no non-improving epoch counted
EarlyStoppingInit(p) ==
    [patience |-> p, has_best |-> FALSE, best |-> Loss(0, 1), counter |-> 0]

NoEarlyStopping == [patience |-> 0, has_best |-> FALSE, best |-> Loss(0, 1), counter |-> 0]

\* the counter reaches the patience only when it exceeds it: one epoch late
ESTriggersLate(counter, patience) == counter > patience

\* the stop condition: patience consecutive non-improving losses
ESTriggers(counter, patience) == counter >= patience

\* EarlyStopping.check(loss): the object after the call and the value returned
ESCheck(es, loss) ==
    IF ~es.has_best \/ Less(loss, es.best)
    THEN [es |-> [es EXCEPT !.has_best = TRUE, !.best = loss, !.counter = 0],
          ret |-> FALSE]
    ELSE [es |-> [es EXCEPT !.counter = es.counter + 1],
          ret |-> ESTriggers(es.counter + 1, es.patience)]

----------------------------------------------------------------------------
(* The training driver (train.py) *)

RECURSIVE SumSeq(_)
SumSeq(s) == IF s = <<>> THEN 0 ELSE s[1] + SumSeq(Tail(s))

\* np.mean of a list of losses: the exact quotient, nan for the empty list
Mean(s) == Loss(SumSeq(s), Len(s))

\* the run ends with an uncaught exception
Raise(e) ==
    /\ pc' = "error"
    /\ error' = e

\* an exception raised inside the with block also closes the session
RaiseInSession(e) ==
    /\ Raise(e)
    /\ sess_open' = FALSE

\* sess.run([..., loss], ...): the exception it raises, "" if it returns.
\* A fetch that is not a graph element is rejected before anything runs; an op
\* that reads a variable fails when the initializer op has not been run.
SessRunError(fetch, initialized) ==
    IF fetch # "tensor" THEN "TypeError"
    ELSE IF ~initialized THEN "FailedPreconditionError"
    ELSE ""

\* tf.argmax(pred, 1) on the fetched rank-1 array pred, handed to list.extend:
\* axis 1 is out of range for rank 1 (ValueError when the op is built), and a
\* graph Tensor cannot be iterated (TypeError)
ArgmaxExtendErrors == {"ValueError", "TypeError"}

\* valid_y is one-hot (np.eye(10)[...]), the predictions are class indices
LabelFormat == "multilabel-indicator"
PredictionFormat == "multiclass"

\* f1_score(valid_y, valid_predictions, average='macro'): the exception it
\* raises, "" if it returns: the lengths must agree and so must the formats
F1ScoreError(n_labels, n_predictions) ==
    IF n_labels # n_predictions THEN "ValueError"
    ELSE IF LabelFormat # PredictionFormat THEN "ValueError"
    ELSE ""

\* train.py 29-38: read sys.argv
ParseArgs ==
    /\ pc = "parse"
    /\ IF Len(argv) = 2
       THEN /\ target_dataset' = argv[2]
            /\ IF argv[2] = "CIFER-10"
               THEN Raise("ValueError")
               ELSE pc' = "load" /\ error' = error
       ELSE /\ target_dataset' = "CIFER-10"
            /\ pc' = "load"
            /\ error' = error
    /\ UNCHANGED <<argv, dataset_size, data_loaded, train_n, valid_n, test_n,
                   model_constructed, graph_built, loss_name, sess_open,
                   init_created, vars_initialized, epochs_started, epoch,
                   n_batches, i, train_costs, valid_costs, valid_predictions,
                   steps_attempted, checkpoints>>
    /\ UNCHANGED <<esvars, rbvars>>

\* train.py 40-60: load and split the data set
\* each train_test_split(..., test_size=5000) needs more than 5000 samples;
\* the first split binds train_X and test_X before the second is called
LoadData ==
    /\ pc = "load"
    /\ IF target_dataset = "CIFER-10"
       THEN IF dataset_size > TEST_SIZE
            THEN /\ test_n' = TEST_SIZE
                 /\ IF dataset_size - TEST_SIZE > TEST_SIZE
                    THEN /\ valid_n' = TEST_SIZE
                         /\ train_n' = dataset_size - TEST_SIZE - TEST_SIZE
                         /\ data_loaded' = TRUE
                         /\ pc' = "build"
                         /\ error' = error
                    ELSE /\ train_n' = dataset_size - TEST_SIZE
                         /\ Raise("ValueError")
                         /\ UNCHANGED <<valid_n, data_loaded>>
            ELSE /\ Raise("ValueError")
                 /\ UNCHANGED <<test_n, valid_n, train_n, data_loaded>>
       ELSE IF target_dataset = "ImageNet"
            THEN /\ pc' = "build"
                 /\ UNCHANGED <<test_n, valid_n, train_n, data_loaded, error>>
            ELSE /\ Raise("ValueError")
                 /\ UNCHANGED <<test_n, valid_n, train_n, data_loaded>>
    /\ UNCHANGED <<argv, dataset_size, target_dataset, model_constructed,
                   graph_built, loss_name, sess_open, init_created,
                   vars_initialized, epochs_started, epoch, n_batches, i,
                   train_costs, valid_costs, valid_predictions, steps_attempted,
                   checkpoints>>
    /\ UNCHANGED <<esvars, rbvars>>

\* build_model(target) of ResidualAttentionModel: whether it returns.
\* It builds the network for "CIFER-10"; for another target it may refuse.
BuildModelOutcomes(target) ==
    IF target = "CIFER-10" THEN {TRUE} ELSE {TRUE, FALSE}

\* train.py 62-75: construct the model, the placeholders and the graph nodes
BuildGraph ==
    /\ pc = "build"
    /\ model_constructed' = TRUE
    /\ \E ok \in BuildModelOutcomes(target_dataset), p \in 1..MaxPatience :
         IF ok
         THEN /\ early_stopping' = EarlyStoppingInit(p)
              /\ graph_built' = TRUE
              /\ loss_name' = "tensor"
              /\ pc' = "session"
              /\ error' = error
         ELSE /\ Raise("ValueError")
              /\ UNCHANGED <<early_stopping, graph_built, loss_name>>
    /\ UNCHANGED <<argv, dataset_size, target_dataset, data_loaded, train_n,
                   valid_n, test_n, sess_open, init_created, vars_initialized,
                   epochs_started, epoch, n_batches, i, train_costs, valid_costs,
                   valid_predictions, steps_attempted, checkpoints>>
    /\ UNCHANGED <<es_obs, es_ret, rbvars>>

\* train.py 78-79: open the session and create (not run) the initializer op
OpenSession ==
    /\ pc = "session"
    /\ sess_open' = TRUE
    /\ init_created' = TRUE
    /\ pc' = "epoch"
    /\ UNCHANGED <<argv, dataset_size, target_dataset, data_loaded, train_n,
                   valid_n, test_n, model_constructed, graph_built, loss_name,
                   vars_initialized, epochs_started, epoch, n_batches, i,
                   train_costs, valid_costs, valid_predictions, steps_attempted,
                   checkpoints, error>>
    /\ UNCHANGED <<esvars, rbvars>>

\* train.py 80-86: head of the epoch loop: the next value of range(NUM_EPOCHS)
\* is bound to epoch, then shuffle, n_batches, train_costs = []; when the range
\* is used up the loop and the with block end and epoch keeps its last value
EpochBegin ==
    /\ pc = "epoch"
    /\ IF epochs_started < NUM_EPOCHS
       THEN /\ epoch' = epochs_started
            /\ epochs_started' = epochs_started + 1
            /\ IF data_loaded
               THEN /\ n_batches' = train_n \div BATCH_SIZE
                    /\ train_costs' = <<>>
                    /\ i' = 0
                    /\ pc' = "train"
                    /\ UNCHANGED <<error, sess_open>>
               ELSE /\ RaiseInSession("NameError")
                    /\ UNCHANGED <<n_batches, train_costs, i>>
       ELSE /\ pc' = "exhausted"
            /\ sess_open' = FALSE
            /\ UNCHANGED <<epochs_started, epoch, n_batches, train_costs, i, error>>
    /\ UNCHANGED <<argv, dataset_size, target_dataset, data_loaded, train_n,
                   valid_n, test_n, model_constructed, graph_built, loss_name,
                   init_created, vars_initialized, valid_costs,
                   valid_predictions, steps_attempted, checkpoints>>
    /\ UNCHANGED <<esvars, rbvars>>

\* train.py 87-97: one training step, or the end of the training loop
TrainLoop ==
    /\ pc = "train"
    /\ IF i < n_batches
       THEN /\ steps_attempted' = steps_attempted + 1
            /\ IF SessRunError(loss_name, vars_initialized) # ""
               THEN /\ RaiseInSession(SessRunError(loss_name, vars_initialized))
                    /\ UNCHANGED <<loss_name, train_costs, i, valid_costs,
                                   valid_predictions>>
               ELSE /\ \E l \in LossValues : train_costs' = Append(train_costs, l)
                    /\ loss_name' = "value"
                    /\ i' = i + 1
                    /\ UNCHANGED <<pc, error, sess_open, valid_costs,
                                   valid_predictions>>
       ELSE /\ valid_costs' = <<>>
            /\ valid_predictions' = 0
            /\ i' = 0
            /\ pc' = "valid"
            /\ UNCHANGED <<steps_attempted, loss_name, train_costs, error, sess_open>>
    /\ UNCHANGED <<argv, dataset_size, target_dataset, data_loaded, train_n,
                   valid_n, test_n, model_constructed, graph_built,
                   init_created, vars_initialized, epochs_started, epoch,
                   n_batches, checkpoints>>
    /\ UNCHANGED <<esvars, rbvars>>

\* train.py 98-103: one validation step, or the end of the validation loop.
\* A step feeds the whole of valid_X; when its sess.run returns, line 102 raises
\* before anything is added to valid_predictions or valid_costs.
ValidLoop ==
    /\ pc = "valid"
    /\ IF i < n_batches
       THEN /\ steps_attempted' = steps_attempted + 1
            /\ IF SessRunError(loss_name, vars_initialized) # ""
               THEN RaiseInSession(SessRunError(loss_name, vars_initialized))
               ELSE \E e \in ArgmaxExtendErrors : RaiseInSession(e)
            /\ UNCHANGED <<valid_costs, valid_predictions, i>>
       ELSE /\ pc' = "score"
            /\ UNCHANGED <<steps_attempted, valid_costs, valid_predictions, i,
                           error, sess_open>>
    /\ UNCHANGED <<argv, dataset_size, target_dataset, data_loaded, train_n,
                   valid_n, test_n, model_constructed, graph_built, loss_name,
                   init_created, vars_initialized, epochs_started, epoch,
                   n_batches, train_costs, checkpoints>>
    /\ UNCHANGED <<esvars, rbvars>>

\* train.py 105-113: F1 score, early-stopping check, checkpoint and break
EpochEnd ==
    /\ pc = "score"
    /\ IF F1ScoreError(valid_n, valid_predictions) # ""
       THEN /\ RaiseInSession(F1ScoreError(valid_n, valid_predictions))
            /\ UNCHANGED <<early_stopping, es_obs, es_ret, checkpoints>>
       ELSE LET r == ESCheck(early_stopping, Mean(valid_costs))
            IN  /\ early_stopping' = r.es
                /\ es_obs' = Append(es_obs, Mean(valid_costs))
                /\ es_ret' = r.ret
                /\ error' = error
                /\ IF r.ret
                   THEN /\ checkpoints' = Append(checkpoints, epoch)
                        /\ pc' = "saved"
                        /\ sess_open' = FALSE
                   ELSE /\ pc' = "epoch"
                        /\ UNCHANGED <<checkpoints, sess_open>>
    /\ UNCHANGED <<argv, dataset_size, target_dataset, data_loaded, train_n,
                   valid_n, test_n, model_constructed, graph_built, loss_name,
                   init_created, vars_initialized, epochs_started, epoch,
                   n_batches, i, train_costs, valid_costs, valid_predictions,
                   steps_attempted>>
    /\ UNCHANGED rbvars

\* train.py 87-113: the body of the epoch loop after its head, one step at a
\* time: a training step, a validation step, or the end of the epoch
EpochLoop ==
    IF pc = "train" THEN TrainLoop
    ELSE IF pc = "valid" THEN ValidLoop
    ELSE EpochEnd

\* values of the variables another specification does not use
DriverOff ==
    /\ pc = "off"
    /\ argv = <<>>
    /\ dataset_size = 0
    /\ target_dataset = ""
    /\ data_loaded = FALSE
    /\ train_n = 0
    /\ valid_n = 0
    /\ test_n = 0
    /\ model_constructed = FALSE
    /\ graph_built = FALSE
    /\ loss_name = "undefined"
    /\ sess_open = FALSE
    /\ init_created = FALSE
    /\ vars_initialized = FALSE
    /\ epochs_started = 0
    /\ epoch = 0
    /\ n_batches = 0
    /\ i = 0
    /\ train_costs = <<>>
    /\ valid_costs = <<>>
    /\ valid_predictions = 0
    /\ steps_attempted = 0
    /\ checkpoints = <<>>
    /\ error = ""

ESOff ==
    /\ early_stopping = NoEarlyStopping
    /\ es_obs = <<>>
    /\ es_ret = FALSE

NoShape == [n |-> 0, h |-> 0, w |-> 0, c |-> 0]
NoArgs == [input_channels |-> 0, oc_given |-> FALSE, output_channels |-> 0, stride |-> 0]
NoBlock == [input_channels |-> 0, output_channels |-> 0, stride |-> 0]
NoOut == [error |-> "", skip |-> "", residual |-> NoShape, skip_shape |-> NoShape, res |-> NoShape]

RBOff ==
    /\ rb_pc = "off"
    /\ rb_args = NoArgs
    /\ rb = NoBlock
    /\ rb_x = NoShape
    /\ rb_out = NoOut

\* the process starts: nothing is bound but sys.argv and the data set on disk
Init ==
    /\ pc = "parse"
    /\ argv \in Argvs
    /\ dataset_size \in DatasetSizes
    /\ target_dataset = ""
    /\ data_loaded = FALSE
    /\ train_n = 0
    /\ valid_n = 0
    /\ test_n = 0
    /\ model_constructed = FALSE
    /\ graph_built = FALSE
    /\ loss_name = "undefined"
    /\ sess_open = FALSE
    /\ init_created = FALSE
    /\ vars_initialized = FALSE
    /\ epochs_started = 0
    /\ epoch = 0
    /\ n_batches = 0
    /\ i = 0
    /\ train_costs = <<>>
    /\ valid_costs = <<>>
    /\ valid_predictions = 0
    /\ steps_attempted = 0
    /\ checkpoints = <<>>
    /\ error = ""
    /\ ESOff
    /\ RBOff

Next ==
    \/ ParseArgs
    \/ LoadData
    \/ BuildGraph
    \/ OpenSession
    \/ EpochBegin
    \/ EpochLoop

Spec == Init /\ [][Next]_vars

----------------------------------------------------------------------------
(* An EarlyStopping object on its own *)

ESInit ==
    /\ DriverOff
    /\ RBOff
    /\ early_stopping \in {EarlyStoppingInit(p) : p \in 1..MaxPatience}
    /\ es_obs = <<>>
    /\ es_ret = FALSE

\* one call of check, as the epoch loop makes it: no call follows a TRUE
ESObserve ==
    /\ ~es_ret
    /\ Len(es_obs) < MaxObs
    /\ \E l \in LossValues :
         /\ early_stopping' = ESCheck(early_stopping, Loss(l, 1)).es
         /\ es_ret' = ESCheck(early_stopping, Loss(l, 1)).ret
         /\ es_obs' = Append(es_obs, Loss(l, 1))
    /\ UNCHANGED <<dvars, rbvars>>

ESNext == ESObserve

SpecES == ESInit /\ [][ESNext]_vars

----------------------------------------------------------------------------
(* Layers and the residual block (model/basic_layers.py), on shapes *)

Shape(n, h, w, c) == [n |-> n, h |-> h, w |-> w, c |-> c]

Ok(shape) == [error |-> "", shape |-> shape]
Failed(e) == [error |-> e, shape |-> NoShape]

\* output size that drops the incomplete last window
SameOutFloor(size, stride) == size \div stride

\* output size of a "SAME" convolution along one spatial axis
SameOut(size, stride) == (size + stride - 1) \div stride

\* output size of a "VALID" convolution along one spatial axis
ValidOut(size, k, stride) == (size - k + stride) \div stride

\* Conv.__init__(shape, strides, padding)
Conv(shape, strides, padding) ==
    [shape |-> shape, strides |-> strides, padding |-> padding]

\* Conv.f_prop: tf.nn.conv2d of x with the filter
ConvFProp(conv, x) ==
    IF x.c # conv.shape[3]
    THEN Failed("ValueError")
    ELSE IF conv.padding = "SAME"
    THEN Ok(Shape(x.n, SameOut(x.h, conv.strides[2]), SameOut(x.w, conv.strides[3]),
                  conv.shape[4]))
    ELSE IF x.h < conv.shape[1] \/ x.w < conv.shape[2]
    THEN Failed("ValueError")
    ELSE Ok(Shape(x.n, ValidOut(x.h, conv.shape[1], conv.strides[2]),
                  ValidOut(x.w, conv.shape[2], conv.strides[3]), conv.shape[4]))

\* BatchNormalization.__init__(channels)
BatchNormalization(channels) == [channels |-> channels]

\* size of an axis after broadcasting sizes a and b, 0 if they do not broadcast
BroadcastDim(a, b) == IF a = b THEN a ELSE IF a = 1 THEN b ELSE IF b = 1 THEN a ELSE 0

\* BatchNormalization.f_prop: the moments of x have x.c entries; the
\* normalisation x * (rsqrt(var + eps) * gamma) + (beta - mean * ...) is
\* element-wise, so the channel axis of x broadcasts against the channels
\* entries of gamma and beta; ReLU keeps the shape
BNFProp(bn, x) ==
    IF BroadcastDim(x.c, bn.channels) = 0
    THEN Failed("ValueError")
    ELSE Ok(Shape(x.n, x.h, x.w, BroadcastDim(x.c, bn.channels)))

\* the test with "and" in place of "or"
NeedsProjectionBoth(block) ==
    block.input_channels # block.output_channels /\ block.stride # 1

\* ResidualBlock.f_prop: the test that selects the 1x1 projection of x
NeedsProjection(block) ==
    block.input_channels # block.output_channels \/ block.stride # 1

\* ResidualBlock.__init__(input_channels, output_channels=None, stride=1)
ResidualBlock(args) ==
    LET ic == args.input_channels
        oc == IF args.oc_given THEN args.output_channels ELSE args.input_channels
        st == args.stride
    IN  [input_channels |-> ic,
         output_channels |-> oc,
         stride |-> st,
         batch_normalization |-> BatchNormalization(ic),
         conv1 |-> Conv(<<3, 3, ic, oc>>, <<1, 1, 1, 1>>, "SAME"),
         batch_normalization_2 |-> BatchNormalization(oc),
         conv2 |-> Conv(<<3, 3, oc, oc>>, <<1, st, st, 1>>, "SAME"),
         _conv |-> Conv(<<1, 1, ic, oc>>, <<1, st, st, 1>>, "SAME")]

\* output_conv2 + input_layer: element-wise sum with broadcasting
Add(a, b) ==
    LET s == Shape(BroadcastDim(a.n, b.n), BroadcastDim(a.h, b.h),
                   BroadcastDim(a.w, b.w), BroadcastDim(a.c, b.c))
    IN  IF s.n = 0 \/ s.h = 0 \/ s.w = 0 \/ s.c = 0 THEN Failed("ValueError") ELSE Ok(s)

\* a layer applied to the result of the layer before it: the first exception
\* propagates
ConvOn(conv, r) == IF r.error # "" THEN r ELSE ConvFProp(conv, r.shape)
BNOn(bn, r) == IF r.error # "" THEN r ELSE BNFProp(bn, r.shape)
AddOn(a, b) ==
    IF a.error # "" THEN a ELSE IF b.error # "" THEN b ELSE Add(a.shape, b.shape)

\* ResidualBlock.f_prop(x)
FProp(block, x) ==
    LET batch_normed_output == BNFProp(block.batch_normalization, x)
        output_conv1 == ConvOn(block.conv1, batch_normed_output)
        batch_normed_output_2 == BNOn(block.batch_normalization_2, output_conv1)
        output_conv2 == ConvOn(block.conv2, batch_normed_output_2)
        projected == NeedsProjection(block)
        input_layer == IF output_conv2.error # "" THEN output_conv2
                       ELSE IF projected THEN ConvFProp(block._conv, x) ELSE Ok(x)
        res == AddOn(output_conv2, input_layer)
    IN  [error |-> res.error,
         skip |-> IF output_conv2.error # "" THEN ""
                  ELSE IF projected THEN "projection" ELSE "identity",
         residual |-> output_conv2.shape,
         skip_shape |-> input_layer.shape,
         res |-> res.shape]

RBInit ==
    /\ DriverOff
    /\ ESOff
    /\ rb_pc = "new"
    /\ rb_args = NoArgs
    /\ rb = NoBlock
    /\ rb_x = NoShape
    /\ rb_out = NoOut

\* block = ResidualBlock(ic, oc, stride) or ResidualBlock(ic, stride=stride)
RBConstruct ==
    /\ rb_pc = "new"
    /\ \E ic \in 1..MaxChannels, st \in 1..MaxStride, given \in BOOLEAN :
         \E oc \in IF given THEN 1..MaxChannels ELSE {0} :
           /\ rb_args' = [input_channels |-> ic, oc_given |-> given,
                          output_channels |-> oc, stride |-> st]
           /\ rb' = ResidualBlock(rb_args')
    /\ rb_pc' = "built"
    /\ UNCHANGED <<rb_x, rb_out, dvars, esvars>>

\* block.f_prop(x) for an input of shape (n, h, w, c)
RBFProp ==
    /\ rb_pc = "built"
    /\ \E n \in 1..MaxBatch, h \in 1..MaxSide, w \in 1..MaxSide, c \in 1..MaxChannels :
         /\ rb_x' = Shape(n, h, w, c)
         /\ rb_out' = FProp(rb, rb_x')
    /\ rb_pc' = "done"
    /\ UNCHANGED <<rb_args, rb, dvars, esvars>>

RBNext ==
    \/ RBConstruct
    \/ RBFProp

SpecRB == RBInit /\ [][RBNext]_vars

----------------------------------------------------------------------------
(* Properties of the training driver, checked under Spec *)

OneArg(a) == Len(argv) = 2 /\ argv[2] = a

\* C1: with the single argument "CIFER-10" and the CIFAR-10 data, no
\* configuration error is raised and the run goes on to load the data with
\* target_dataset = "CIFER-10"
C1_CiferArgAccepted ==
    (OneArg("CIFER-10") /\ dataset_size = CIFAR10_SIZE /\ pc # "parse")
        => (target_dataset = "CIFER-10" /\ error # "ValueError")

\* C2: with a single argument other than "CIFER-10" the run ends with a
\* ValueError before the model is constructed, before the graph is built and
\* before any step is run
C2_OtherArgRejected ==
    (Len(argv) = 2 /\ argv[2] # "CIFER-10")
        => /\ pc \in {"parse", "load", "error"}
           /\ pc = "error" => error = "ValueError"
           /\ ~model_constructed
           /\ ~graph_built
           /\ steps_attempted = 0

\* C7: a run that reaches the epoch loop with its data loaded ends saved or exhausted, with
\* floor(|train| / BATCH_SIZE) training steps done in every epoch and
\* NUM_EPOCHS epochs done when the budget is exhausted
C7_EndsSavedOrExhausted ==
    (init_created /\ data_loaded)
        => /\ pc # "error"
           /\ pc \in {"valid", "score"} => Len(train_costs) = train_n \div BATCH_SIZE
           /\ pc = "exhausted" => epochs_started = NUM_EPOCHS
           /\ epochs_started <= NUM_EPOCHS

\* C10: no training or validation step is run before the variables have been
\* initialized in the session
C10_InitializedBeforeSteps ==
    steps_attempted > 0 => vars_initialized

\* No run completes a training step: the name loss is never rebound, the
\* validation loop and f1_score are never reached, early_stopping.check is
\* never called, no checkpoint is written and the epoch loop never gets past
\* epoch 0.
NoStepCompletes ==
    /\ loss_name \in {"undefined", "tensor"}
    /\ train_costs = <<>>
    /\ valid_costs = <<>>
    /\ valid_predictions = 0
    /\ es_obs = <<>>
    /\ ~early_stopping.has_best
    /\ checkpoints = <<>>
    /\ epochs_started <= 1
    /\ epoch = 0
    /\ pc \notin {"valid", "score", "saved", "exhausted"}

----------------------------------------------------------------------------
(* Properties of EarlyStopping, checked under SpecES *)

Scenario == <<100, 90, 95, 97, 100>>

\* the losses observed, in hundredths
Observed == [k \in 1..Len(es_obs) |-> es_obs[k].num]

SetMin(S) == CHOOSE m \in S : \A v \in S : m <= v

\* observation k does not improve on the best loss seen before it
NonImproving(h, k) == k > 1 /\ h[k] >= SetMin({h[j] : j \in 1..(k - 1)})

\* C3: check returns TRUE exactly when the last patience observations all
\* failed to improve on the best loss seen; on [1.0, 0.9, 0.95, 0.97, 1.0]
\* with patience 3 it is FALSE for observations 1-4 and TRUE for the 5th; an
\* improving observation resets the counter to zero
C3_EarlyStoppingExact ==
    LET n == Len(es_obs)
        p == early_stopping.patience
    IN  /\ es_ret <=> (n >= p /\ \A k \in (n - p + 1)..n : NonImproving(Observed, k))
        /\ (p = 3 /\ n >= 1 /\ n <= Len(Scenario) /\ Observed = SubSeq(Scenario, 1, n))
               => (es_ret <=> n = 5)
        /\ (n >= 1 /\ ~NonImproving(Observed, n))
               => (early_stopping.counter = 0 /\ early_stopping.best = es_obs[n])

C3_Witness ==
    /\ early_stopping.patience = 3
    /\ Observed = Scenario
    /\ es_ret
    /\ early_stopping.counter = 3
    /\ early_stopping.best = Loss(90, 1)

----------------------------------------------------------------------------
(* Properties of ResidualBlock, checked under SpecRB *)

\* q is size / stride rounded up
IsCeilDiv(q, size, stride) == q * stride >= size /\ (q - 1) * stride < size

\* f_prop was applied to an input with the block's input_channels
Applied == rb_pc = "done" /\ rb_x.c = rb.input_channels

\* C5 (as stated): the output shape is (N, H/stride, W/stride, output_channels)
C5_ShapeExactQuotient ==
    Applied
        => /\ rb_out.error = ""
           /\ rb_out.residual = rb_out.skip_shape
           /\ rb_out.res = Shape(rb_x.n, rb_x.h \div rb.stride, rb_x.w \div rb.stride,
                                 rb.output_channels)

\* C5 (amended): the transformed path and the skip path have the same shape
\* and the output shape is (N, ceil(H/stride), ceil(W/stride), output_channels)
C5_ShapeCeilQuotient ==
    Applied
        => /\ rb_out.error = ""
           /\ rb_out.residual = rb_out.skip_shape
           /\ rb_out.res = rb_out.residual
           /\ rb_out.res.n = rb_x.n
           /\ IsCeilDiv(rb_out.res.h, rb_x.h, rb.stride)
           /\ IsCeilDiv(rb_out.res.w, rb_x.w, rb.stride)
           /\ rb_out.res.c = rb.output_channels
           /\ (rb_x.h % rb.stride = 0 => rb_out.res.h * rb.stride = rb_x.h)
           /\ (rb_x.w % rb.stride = 0 => rb_out.res.w * rb.stride = rb_x.w)

C5_Witness ==
    /\ Applied
    /\ rb.stride = 2
    /\ rb.input_channels # rb.output_channels
    /\ rb_x.h = 3
    /\ rb_x.w = 4
    /\ rb_out.res = Shape(rb_x.n, 2, 2, rb.output_channels)

\* C6: the 1x1 projection is applied to the input iff the channel counts given
\* at construction differ or stride is not 1; otherwise x itself is added; an
\* omitted output_channels equals input_channels
C6_ProjectionIff ==
    LET differ == rb_args.oc_given /\ rb_args.output_channels # rb_args.input_channels
    IN  /\ (rb_pc \in {"built", "done"} /\ ~rb_args.oc_given)
               => rb.output_channels = rb_args.input_channels
        /\ Applied
               => /\ rb_out.skip = "projection" <=> (differ \/ rb_args.stride # 1)
                  /\ rb_out.skip = "identity" <=> (~differ /\ rb_args.stride = 1)
                  /\ rb_out.skip = "identity" => rb_out.skip_shape = rb_x

C6_Witness ==
    /\ Applied
    /\ ~rb_args.oc_given
    /\ rb_args.stride = 1
    /\ rb_out.skip = "identity"
    /\ rb_out.skip_shape = rb_x
    /\ rb_out.res = rb_x

====
